---- MODULE Spec2Model ----
(***************************************************************************)
(* A model of the scene code of draw-trongle-3ds: Texture, Material and    *)
(* its GPU texture (C3DTex), Shape::draw and the OBJ importer parse_obj.   *)
(*                                                                         *)
(* Three specifications share the module:                                  *)
(*   Spec     the life of Shapes and their Materials on one GPU context:   *)
(*            construction, drawing, destruction;                          *)
(*   SpecObj  parse_obj applied to a bounded family of OBJ documents;      *)
(*   SpecMain the main loop: input handling and the stereo render of the   *)
(*            loaded Models, frame by frame.                               *)
(*                                                                         *)
(* Conventions.  Option<T> is a sequence of length 0 (None) or 1 (Some).   *)
(* A Vec<u8> is kept as a run [len, byte]: every byte vector the program   *)
(* builds is either repeat(b).take(n) or the contents of a file, and only  *)
(* its length and fill are ever inspected.  Rust indices are 0-based, the  *)
(* sequences here are 1-based.                                             *)
(***************************************************************************)
EXTENDS Integers, Sequences, FiniteSets, TLC

VARIABLES
    pc,         \* "load", "run", "exited" or "panicked"
    shapes,     \* the Shapes alive, in construction order
    tex_res,    \* every C3D_Tex ever initialised, by id
    texenv0,    \* texenv stage 0 of the GPU context: [src, func]
    tex_unit0,  \* Option<id>: the texture bound on unit 0
    last_draw,  \* the GPU commands of the most recent Shape::draw
    obj_doc,    \* the OBJ document handed to parse_obj
    obj_out,    \* Option<result of parse_obj>
    cam,        \* [pos, rot]: cam_pos and cam_rot of main
    models,     \* the Models main loaded (dropped once main has ended)
    frame       \* the latest iteration of the main loop: its input and trace

main_vars == <<cam, models, frame>>

vars == <<pc, shapes, tex_res, texenv0, tex_unit0, last_draw, obj_doc, obj_out,
          cam, models, frame>>

----------------------------------------------------------------------------
(* Bounds *)

MaxShapes == 2      \* Shapes constructed in one run of Spec
MaxTex == 2         \* C3D_Tex resources initialised in one run of Spec
MaxObjects == 2     \* objects of an OBJ document
MaxGroups == 2      \* groups of an object
MaxPolys == 2       \* polygons of a group
MaxFaceLen == 4     \* index tuples of a polygon
MaxFrames == 2      \* iterations of the main loop in one run of SpecMain

----------------------------------------------------------------------------
(* Option, Vec<u8> *)

None == <<>>
Some(x) == <<x>>
is_some(o) == Len(o) = 1
is_none(o) == Len(o) = 0

\* repeat(b).take(n).collect::<Vec<u8>>()
repeat_take(b, n) == [len |-> n, byte |-> b]

----------------------------------------------------------------------------
(* texture.rs *)

Texture_new(width, height, data) ==
    [width |-> width, height |-> height, data |-> data]

----------------------------------------------------------------------------
(* material.rs: TextureColour, C3DTex *)

TextureColour_size(fmt) ==
    CASE fmt = "Rgba8" -> 32
      [] fmt = "Rgb8" -> 24
      [] fmt \in {"Rgba5551", "Rgb565", "Rgba4", "La8", "HiLo8"} -> 16
      [] fmt \in {"L8", "A8", "La4", "Etc1A4"} -> 8
      [] fmt \in {"L4", "A4", "Etc1"} -> 4

\* upload with its assertion left out: every buffer reaches C3D_TexUpload.
C3DTex_upload_unchecked(width, height, fmt, data) == TRUE

\* The assertion of C3DTex::upload: TRUE when the buffer is accepted and
\* C3D_TexUpload is reached, FALSE when the assertion panics.
C3DTex_upload_accepts(width, height, fmt, data) ==
    data.len >= (width * height * TextureColour_size(fmt)) \div 8

\* A C3D_Tex resource as tex_res records it.  by: the function whose call of
\* make_texture initialised it; offered: length of the buffer handed to
\* upload; uploaded: Option<length of the buffer C3D_TexUpload was given>; deletes: number of C3D_TexDelete calls on it; freed_by: where the
\* owning C3DTex value was dropped.
C3D_Tex(width, height, fmt, by, offered) ==
    [width |-> width, height |-> height, fmt |-> fmt, by |-> by,
     offered |-> offered, uploaded |-> None, deletes |-> 0, freed_by |-> ""]

\* Drop for C3DTex
C3DTex_drop(res, id, where) ==
    [res EXCEPT ![id].deletes = @ + 1, ![id].freed_by = where]

\* Material::make_texture(texture), with the outcome of C3D_TexInit given by
\* alloc_ok.  Returns the Option<C3DTex> (a C3DTex is its resource id), the
\* resources afterwards, whether upload's assertion panicked, and the GPU
\* library calls made, in order.
Material_make_texture(texture, alloc_ok, res, by) ==
    IF is_none(texture)
    THEN [tex |-> None, res |-> res, panic |-> FALSE, ops |-> <<>>]
    ELSE LET tex == texture[1]
             id == Len(res) + 1
             init == [op |-> "C3D_TexInit", id |-> IF alloc_ok THEN id ELSE 0,
                      arg |-> <<"Rgba8">>]
         IN  IF ~alloc_ok
             THEN \* C3DTex::new(..).ok()? returns None
                  [tex |-> None, res |-> res, panic |-> FALSE, ops |-> <<init>>]
             ELSE LET r == C3D_Tex(tex.width, tex.height, "Rgba8", by, tex.data.len)
                      res1 == Append(res, r)
                  IN  IF C3DTex_upload_accepts(r.width, r.height, r.fmt, tex.data)
                      THEN [tex |-> Some(id),
                            res |-> [res1 EXCEPT ![id].uploaded = Some(tex.data.len)],
                            panic |-> FALSE,
                            ops |-> <<init, [op |-> "C3D_TexUpload", id |-> id,
                                             arg |-> <<>>]>>]
                      ELSE \* the assertion panics; t is dropped by the unwinding
                           [tex |-> None,
                            res |-> C3DTex_drop(res1, id, "unwind"),
                            panic |-> TRUE,
                            ops |-> <<init, [op |-> "C3D_TexDelete", id |-> id,
                                             arg |-> <<>>]>>]

----------------------------------------------------------------------------
(* material.rs: Material *)

\* Material::new; the record carries the Material and what building it did.
Material_new(texture, colour, ambient, vertex_colours, alloc_ok, res) ==
    LET m == Material_make_texture(texture, alloc_ok, res, "Material::new")
    IN  [mat |-> [texture |-> texture, colour |-> colour, ambient |-> ambient,
                  vertex_colours |-> vertex_colours, citro_tex |-> m.tex],
         res |-> m.res, panic |-> m.panic]

Material_use_vertex_colours(mat) == mat.vertex_colours

Material_get_texture(mat) ==
    IF is_some(mat.citro_tex) THEN Some(mat.citro_tex[1]) ELSE None

\* Dropping a Material drops its citro_tex field.
Material_drop(res, mat, where) ==
    IF is_some(mat.citro_tex) THEN C3DTex_drop(res, mat.citro_tex[1], where)
    ELSE res

----------------------------------------------------------------------------
(* shape.rs *)

Shape_new(mat, prim_type, verts) ==
    [mat |-> mat, prim_type |-> prim_type, verts |-> verts]

RECURSIVE drop_shapes(_, _, _, _)
\* Dropping the first n Shapes of ss, each dropping its Material.
drop_shapes(res, ss, n, where) ==
    IF n = 0 THEN res
    ELSE Material_drop(drop_shapes(res, ss, n - 1, where), ss[n].mat, where)

\* The texenv of a stage after reset(): <<source0, source1, source2>> as
\* src() takes them, and the combine function.
TexEnvInit == [src |-> <<"Previous", None, None>>, func |-> "Replace"]

\* TexEnv::src(Mode::BOTH, source0, source1, source2)
texenv_src(source0, source1, source2) ==
    [op |-> "C3D_TexEnvSrc", id |-> 0, arg |-> <<source0, source1, source2>>]

texenv_func(func) == [op |-> "C3D_TexEnvFunc", id |-> 0, arg |-> <<func>>]

texenv_reset == [op |-> "C3D_TexEnvInit", id |-> 0, arg |-> <<>>]

\* draw relying on the combiner the previous Shape left: the textured
\* branches bind the texture and write nothing of the stage.
Shape_draw_texenv_stale(tex, mat) ==
    IF is_some(tex)
    THEN <<[op |-> "C3D_TexBind", id |-> tex[1], arg |-> <<"0">>]>>
    ELSE <<texenv_reset,
           texenv_src("PrimaryColor", None, None),
           texenv_func("Replace")>>

\* The texenv commands of Shape::draw for the texture it holds.
Shape_draw_texenv(tex, mat) ==
    IF is_some(tex)
    THEN <<[op |-> "C3D_TexBind", id |-> tex[1], arg |-> <<"0">>]>> \o
         (IF Material_use_vertex_colours(mat)
          THEN <<texenv_src("Texture0", Some("PrimaryColor"), None),
                 texenv_func("Modulate")>>
          ELSE <<texenv_src("Texture0", None, None),
                 texenv_func("Replace")>>)
    ELSE <<texenv_reset,
           texenv_src("PrimaryColor", None, None),
           texenv_func("Replace")>>

\* Lines 82-88 with the draw call issued as a triangle list whatever the
\* Shape's topology.
Shape_draw_arrays_triangles(shape) ==
    <<[op |-> "BufInfo_Add", id |-> Len(shape.verts), arg |-> <<>>],
      [op |-> "C3D_SetAttrInfo", id |-> 0, arg |-> <<>>],
      [op |-> "C3D_DrawArrays", id |-> Len(shape.verts),
       arg |-> <<"Triangles">>]>>

\* The commands that upload the vertices and issue the draw call.
Shape_draw_arrays(shape) ==
    <<[op |-> "BufInfo_Add", id |-> Len(shape.verts), arg |-> <<>>],
      [op |-> "C3D_SetAttrInfo", id |-> 0, arg |-> <<>>],
      [op |-> "C3D_DrawArrays", id |-> Len(shape.verts),
       arg |-> <<shape.prim_type>>]>>

\* All GPU library calls of one Shape::draw, in order.  tex is what
\* self.mat.make_texture() returned (m); it is a local of draw and is dropped
\* when draw returns.
Shape_draw_ops(shape, m) ==
    IF m.panic THEN m.ops
    ELSE m.ops \o Shape_draw_texenv(m.tex, shape.mat) \o Shape_draw_arrays(shape)
         \o (IF is_some(m.tex)
             THEN <<[op |-> "C3D_TexDelete", id |-> m.tex[1], arg |-> <<>>]>>
             ELSE <<>>)

\* The effect of one command on the context state [env, unit0].
gpu_apply(gpu, c) ==
    CASE c.op = "C3D_TexBind" -> [gpu EXCEPT !.unit0 = Some(c.id)]
      [] c.op = "C3D_TexEnvInit" -> [gpu EXCEPT !.env = TexEnvInit]
      [] c.op = "C3D_TexEnvSrc" -> [gpu EXCEPT !.env.src = c.arg]
      [] c.op = "C3D_TexEnvFunc" -> [gpu EXCEPT !.env.func = c.arg[1]]
      [] OTHER -> gpu

RECURSIVE gpu_run(_, _, _)
\* The context state after the first n commands of ops.
gpu_run(gpu, ops, n) ==
    IF n = 0 THEN gpu ELSE gpu_apply(gpu_run(gpu, ops, n - 1), ops[n])

\* Positions in ops of the commands named op.
ops_at(ops, op) == {i \in DOMAIN ops : ops[i].op = op}

----------------------------------------------------------------------------
(* main.rs: Vec3, Vec2, Vert.  A coordinate is an integer count of 1/512. *)

Vec3_new(x, y, z) == [x |-> x, y |-> y, z |-> z]
Vec2_new(x, y) == [x |-> x, y |-> y]
Vert(pos, tex) == [pos |-> pos, tex |-> tex]

----------------------------------------------------------------------------
(* Spec: Shapes and Materials on one GPU context *)

\* Textures handed to Material::new: none, 8x8 with one byte too few, the
\* importer's 64x64 placeholder, which has exactly the bytes needed, and the
\* importer's 512x512 texture read from a file that is longer than needed.
TextureInputs ==
    {None,
     Some(Texture_new(8, 8, repeat_take(0, 8 * 8 * 4 - 1))),
     Some(Texture_new(64, 64, repeat_take(0, 64 * 64 * 4))),
     Some(Texture_new(512, 512, repeat_take(255, 512 * 512 * 4 + 54)))}

\* One triangle.
Triangle ==
    <<Vert(Vec3_new(0, 0, 0), Vec2_new(0, 0)),
      Vert(Vec3_new(512, 0, 0), Vec2_new(512, 0)),
      Vert(Vec3_new(0, 512, 0), Vec2_new(0, 512))>>

\* C3D_TexInit can fail at any call; it cannot succeed once MaxTex resources
\* have been initialised.
AllocOutcomes(res) == IF Len(res) < MaxTex THEN BOOLEAN ELSE {FALSE}

\* cam_pos and cam_rot as main creates them (lines 325-326).
CamInit == [pos |-> Vec3_new(0, 0, 0), rot |-> Vec3_new(0, 0, 0)]

\* No iteration of the main loop has run.
NoFrame == [n |-> 0, input |-> None, trace |-> <<>>, done |-> FALSE]

NoDraw == [shape |-> 0, mat |-> None, ops |-> <<>>, env_before |-> TexEnvInit]

Init ==
    /\ pc = "load"
    /\ shapes = <<>>
    /\ tex_res = <<>>
    /\ texenv0 = TexEnvInit
    /\ tex_unit0 = None
    /\ last_draw = NoDraw
    /\ obj_doc = None
    /\ obj_out = None
    /\ cam = CamInit
    /\ models = <<>>
    /\ frame = NoFrame

\* A panic unwinds main: every Shape alive is dropped.
Unwind(res) ==
    /\ pc' = "panicked"
    /\ tex_res' = drop_shapes(res, shapes, Len(shapes), "unwind")
    /\ shapes' = <<>>

\* Shape::new(Material::new(texture, None, None, vertex_colours), ..) while
\* the scene is loaded.
NewShape(texture, vertex_colours, alloc_ok) ==
    /\ pc = "load"
    /\ Len(shapes) < MaxShapes
    /\ LET b == Material_new(texture, None, None, vertex_colours, alloc_ok, tex_res)
       IN  IF b.panic
           THEN Unwind(b.res)
           ELSE /\ shapes' = Append(shapes, Shape_new(b.mat, "Triangles", Triangle))
                /\ tex_res' = b.res
                /\ pc' = pc
    /\ UNCHANGED <<texenv0, tex_unit0, last_draw, obj_doc, obj_out>>
    /\ UNCHANGED main_vars

\* Loading panics (an unwrap() or the todo!() of parse_obj) after some Shapes
\* were built.
LoadAbort ==
    /\ pc = "load"
    /\ Unwind(tex_res)
    /\ UNCHANGED <<texenv0, tex_unit0, last_draw, obj_doc, obj_out>>
    /\ UNCHANGED main_vars

\* Loading returns and the main loop starts.
StartLoop ==
    /\ pc = "load"
    /\ pc' = "run"
    /\ UNCHANGED <<shapes, tex_res, texenv0, tex_unit0, last_draw, obj_doc, obj_out>>
    /\ UNCHANGED main_vars

\* Shape::draw(&self, gpu) on the s-th Shape.
Shape_draw(s, alloc_ok) ==
    /\ pc = "run"
    /\ s \in DOMAIN shapes
    /\ LET shape == shapes[s]
           m == Material_make_texture(shape.mat.texture, alloc_ok, tex_res,
                                      "Shape::draw")
           ops == Shape_draw_ops(shape, m)
           gpu == gpu_run([env |-> texenv0, unit0 |-> tex_unit0], ops, Len(ops))
           res == IF is_some(m.tex) THEN C3DTex_drop(m.res, m.tex[1], "Shape::draw")
                  ELSE m.res
       IN  /\ texenv0' = gpu.env
           /\ tex_unit0' = gpu.unit0
           /\ last_draw' = [shape |-> s, mat |-> Some(shape.mat), ops |-> ops,
                            env_before |-> texenv0]
           /\ IF m.panic
              THEN Unwind(res)
              ELSE /\ tex_res' = res
                   /\ UNCHANGED <<pc, shapes>>
    /\ UNCHANGED <<obj_doc, obj_out>>
    /\ UNCHANGED main_vars

\* main returns: the models, their Shapes and Materials are dropped.
Exit ==
    /\ pc = "run"
    /\ pc' = "exited"
    /\ tex_res' = drop_shapes(tex_res, shapes, Len(shapes), "Material::drop")
    /\ shapes' = <<>>
    /\ UNCHANGED <<texenv0, tex_unit0, last_draw, obj_doc, obj_out>>
    /\ UNCHANGED main_vars

Next ==
    \/ \E t \in TextureInputs, vc \in BOOLEAN, ok \in AllocOutcomes(tex_res) :
         NewShape(t, vc, ok)
    \/ LoadAbort
    \/ StartLoop
    \/ \E s \in 1..MaxShapes, ok \in AllocOutcomes(tex_res) : Shape_draw(s, ok)
    \/ Exit

Spec == Init /\ [][Next]_vars

----------------------------------------------------------------------------
(* colour.rs *)

Colour_new(r, g, b, a) == <<r, g, b, a>>

----------------------------------------------------------------------------
(* obj.rs: parse_obj                                                       *)
(*                                                                         *)
(* Numbers read from the file (coordinates, kd) are integer counts of      *)
(* 1/FileDen; stored texture coordinates are integer counts of 1/One.      *)
(* For the values of the document family below every f32 operation of      *)
(* parse_obj is exact, so the integers are the values the code computes.   *)

FileDen == 512
One == 512 * 512        \* the stored texture coordinate 1.0

\* e * (num / den) for a file number e, as a stored coordinate.
mul_ratio(e, num, den) == (e * num * (One \div FileDen)) \div den

\* The remap with the vertical ratio taken equal to the horizontal one.
remap_tex_same_ratio(e) ==
    Vec2_new(mul_ratio(e[1], 480, 512), One - mul_ratio(e[2], 480, 512))

\* The closure of lines 27-30: x = e[0] * (480/512), y = 1 - e[1] * (395/512).
remap_tex(e) ==
    Vec2_new(mul_ratio(e[1], 480, 512), One - mul_ratio(e[2], 395, 512))

\* (x * 255.0) as u8 for a file number x: truncation, saturating at 0 and 255.
mul255_as_u8(x) ==
    IF x <= 0 THEN 0
    ELSE IF (x * 255) \div FileDen > 255 THEN 255 ELSE (x * 255) \div FileDen

\* Iterator::take(n) on a sequence.
take(seq, n) == SubSeq(seq, 1, IF Len(seq) < n THEN Len(seq) ELSE n)

\* The closure of flat_map without take(3): every referenced pair is emitted.
poly_verts_untruncated(p, vertices, tex_coords) ==
    [i \in DOMAIN p |->
        Vert(vertices[p[i].v],
             IF is_some(p[i].t) THEN tex_coords[p[i].t[1]] ELSE Vec2_new(0, 0))]

\* The closure of flat_map dropping every texture coordinate of a polygon
\* that has an index tuple without one.
poly_verts_all_or_none(p, vertices, tex_coords) ==
    LET verts == take([i \in DOMAIN p |-> vertices[p[i].v]], 3)
        full == \A i \in DOMAIN p : is_some(p[i].t)
        texs == take([i \in DOMAIN p |->
                        IF full THEN tex_coords[p[i].t[1]]
                        ELSE Vec2_new(0, 0)], 3)
        n == IF Len(verts) < Len(texs) THEN Len(verts) ELSE Len(texs)
    IN  [i \in 1..n |-> Vert(verts[i], texs[i])]

\* The Verts one polygon contributes (the closure of flat_map, lines 69-86).
\* p is the polygon's sequence of index tuples [v, t].
poly_verts(p, vertices, tex_coords) ==
    LET verts == take([i \in DOMAIN p |-> vertices[p[i].v]], 3)
        texs == take([i \in DOMAIN p |->
                        IF is_some(p[i].t) THEN tex_coords[p[i].t[1]]
                        ELSE Vec2_new(0, 0)], 3)
        n == IF Len(verts) < Len(texs) THEN Len(verts) ELSE Len(texs)
    IN  [i \in 1..n |-> Vert(verts[i], texs[i])]

RECURSIVE flat_map_polys(_, _, _, _)
\* The Verts of the first n polygons of polys, concatenated.
flat_map_polys(polys, n, vertices, tex_coords) ==
    IF n = 0 THEN <<>>
    ELSE flat_map_polys(polys, n - 1, vertices, tex_coords)
         \o poly_verts(polys[n], vertices, tex_coords)

\* Lines 41-65 with a Ref material taken as no material at all.
resolve_material_ref_default(mat) ==
    IF is_none(mat) \/ mat[1].kind = "Ref"
    THEN [panic |-> FALSE, col |-> None, tex |-> None]
    ELSE LET m == mat[1]
             col == IF is_some(m.kd)
                    THEN Some(Colour_new(mul255_as_u8(m.kd[1][1]),
                                         mul255_as_u8(m.kd[1][2]),
                                         mul255_as_u8(m.kd[1][3]),
                                         255))
                    ELSE None
         IN  IF is_none(m.map_kd)
             THEN [panic |-> FALSE, col |-> col, tex |-> None]
             ELSE IF ~m.map_kd[1].readable
             THEN [panic |-> TRUE, col |-> col, tex |-> None]
             ELSE [panic |-> FALSE, col |-> col,
                   tex |-> Some(Texture_new(512, 512, m.map_kd[1].data))]

\* Lines 41-65: the (col, tex) of a group's material, or a panic.
resolve_material(mat) ==
    IF is_none(mat) THEN [panic |-> FALSE, col |-> None, tex |-> None]
    ELSE LET m == mat[1]
         IN  IF m.kind = "Ref"
             THEN [panic |-> TRUE, col |-> None, tex |-> None]      \* todo!()
             ELSE LET col == IF is_some(m.kd)
                             THEN Some(Colour_new(mul255_as_u8(m.kd[1][1]),
                                                  mul255_as_u8(m.kd[1][2]),
                                                  mul255_as_u8(m.kd[1][3]),
                                                  255))
                             ELSE None
                  IN  IF is_none(m.map_kd)
                      THEN [panic |-> FALSE, col |-> col, tex |-> None]
                      ELSE IF ~m.map_kd[1].readable
                      THEN [panic |-> TRUE, col |-> col, tex |-> None]  \* unwrap()
                      ELSE [panic |-> FALSE, col |-> col,
                            tex |-> Some(Texture_new(512, 512, m.map_kd[1].data))]

\* Lines 88-96 without the or_else: a group without texture stays without.
tex_or_none(tex) == tex

\* Lines 88-96: the texture handed to Material::new.
tex_or_placeholder(tex) ==
    IF is_some(tex) THEN tex
    ELSE Some(Texture_new(64, 64, repeat_take(0, 64 * 64 * 4)))

\* The closure of lines 40-104 skipping the groups without polygons.
parse_group_skip_empty(st, g, vertices, tex_coords, fails) ==
    IF st.panic \/ Len(g.polys) = 0 THEN st
    ELSE LET r == resolve_material(g.material)
             k == Len(st.built) + 1
         IN  IF r.panic THEN [st EXCEPT !.panic = TRUE]
             ELSE LET polys == flat_map_polys(g.polys, Len(g.polys),
                                              vertices, tex_coords)
                      b == Material_new(tex_or_placeholder(r.tex), r.col, None,
                                        TRUE, k \notin fails, st.res)
                      shape == Shape_new(b.mat, "Triangles", polys)
                  IN  IF b.panic
                      THEN [st EXCEPT !.panic = TRUE, !.res = b.res]
                      ELSE [st EXCEPT !.res = b.res,
                                      !.shapes = Append(@, shape),
                                      !.built = Append(@, shape)]

\* The closure of lines 40-104 applied to group g.  st carries what parse_obj
\* has done so far: the C3D_Tex resources, whether it panicked, the Shapes of
\* the object being read, every Shape built, the Models finished.  The
\* C3D_TexInit of the k-th group read fails when k is in fails.
parse_group(st, g, vertices, tex_coords, fails) ==
    IF st.panic THEN st
    ELSE LET r == resolve_material(g.material)
             k == Len(st.built) + 1
         IN  IF r.panic THEN [st EXCEPT !.panic = TRUE]
             ELSE LET polys == flat_map_polys(g.polys, Len(g.polys),
                                              vertices, tex_coords)
                      b == Material_new(tex_or_placeholder(r.tex), r.col, None,
                                        TRUE, k \notin fails, st.res)
                      shape == Shape_new(b.mat, "Triangles", polys)
                  IN  IF b.panic
                      THEN [st EXCEPT !.panic = TRUE, !.res = b.res]
                      ELSE [st EXCEPT !.res = b.res,
                                      !.shapes = Append(@, shape),
                                      !.built = Append(@, shape)]

RECURSIVE parse_groups(_, _, _, _, _, _)
parse_groups(st, groups, n, vertices, tex_coords, fails) ==
    IF n = 0 THEN st
    ELSE parse_group(parse_groups(st, groups, n - 1, vertices, tex_coords, fails),
                     groups[n], vertices, tex_coords, fails)

Model_new(pos, rot, ss) == [pos |-> pos, rot |-> rot, shapes |-> ss]

\* The closure of lines 36-107 applied to object e.
parse_object(st, e, vertices, tex_coords, fails) ==
    IF st.panic THEN st
    ELSE LET s == parse_groups([st EXCEPT !.shapes = <<>>], e.groups,
                               Len(e.groups), vertices, tex_coords, fails)
         IN  IF s.panic THEN s
             ELSE [s EXCEPT !.models =
                       Append(@, Model_new(Vec3_new(0, 0, 0), Vec3_new(0, 0, 0),
                                           s.shapes))]

RECURSIVE parse_objects(_, _, _, _, _, _)
parse_objects(st, objects, n, vertices, tex_coords, fails) ==
    IF n = 0 THEN st
    ELSE parse_object(parse_objects(st, objects, n - 1, vertices, tex_coords, fails),
                      objects[n], vertices, tex_coords, fails)

\* parse_obj(path) for the document doc found at path: the Models returned
\* or a panic, and the C3D_Tex resources afterwards.  A panic unwinds and
\* drops every Shape built.
parse_obj(doc, fails, res) ==
    IF ~doc.load_ok \/ ~doc.mtls_ok
    THEN [panic |-> TRUE, models |-> <<>>, res |-> res]
    ELSE LET vertices == [i \in DOMAIN doc.position |->
                            Vec3_new(doc.position[i][1], doc.position[i][2],
                                     doc.position[i][3])]
             tex_coords == [i \in DOMAIN doc.texture |-> remap_tex(doc.texture[i])]
             st == parse_objects([res |-> res, panic |-> FALSE, shapes |-> <<>>,
                                  built |-> <<>>, models |-> <<>>],
                                 doc.objects, Len(doc.objects),
                                 vertices, tex_coords, fails)
         IN  IF st.panic
             THEN [panic |-> TRUE, models |-> <<>>,
                   res |-> drop_shapes(st.res, st.built, Len(st.built), "unwind")]
             ELSE [panic |-> FALSE, models |-> st.models, res |-> st.res]

----------------------------------------------------------------------------
(* SpecObj: parse_obj on a family of documents *)

\* data.position of every document: [x, y, z] in file numbers.
Positions == <<<<0, 0, 0>>, <<512, 0, 0>>, <<0, 512, 0>>, <<512, 512, -512>>>>

\* First entry of data.texture; the second entry is the first one swapped.
UVs == {<<512, 512>>, <<256, 1024>>}

ObjFile(readable, len) == [readable |-> readable, data |-> repeat_take(255, len)]

Mtl(kd, map_kd) == [kind |-> "Mtl", kd |-> kd, map_kd |-> map_kd]

\* The materials a group can carry; group j of a document seeded with m
\* carries the (m + j - 1)-th, cyclically.
ObjMaterials ==
    <<None,
      Some(Mtl(None, None)),
      Some(Mtl(Some(<<256, 0, 768>>), None)),
      Some(Mtl(Some(<<512, 102, 0>>), Some(ObjFile(TRUE, 512 * 512 * 4)))),
      Some(Mtl(None, Some(ObjFile(TRUE, 512 * 512 * 4 + 54)))),
      Some(Mtl(None, Some(ObjFile(TRUE, 4096)))),
      Some(Mtl(None, Some(ObjFile(FALSE, 0)))),
      Some([kind |-> "Ref", kd |-> None, map_kd |-> None])>>

\* Sets of face positions that carry no texture-coordinate index.
MissingSets == {{}, {1}, {2}, {3}, 1..MaxFaceLen}

\* A polygon of n index tuples; q makes the polygons of a document differ.
GenFace(n, missing, q) ==
    [i \in 1..n |->
        [v |-> ((i + q) % Len(Positions)) + 1,
         t |-> IF i \in missing THEN None ELSE Some(((i + q) % 2) + 1)]]

\* The j-th group of a document.
GenGroup(j, fc, n, missing, m) ==
    [material |-> ObjMaterials[((m + j - 2) % Len(ObjMaterials)) + 1],
     polys |-> [k \in 1..((fc + j - 1) % (MaxPolys + 1)) |->
                   GenFace(((n + k - 2) % MaxFaceLen) + 1, missing, j + k)]]

\* The numbers of groups of k objects: g1 for the odd ones, g2 for the even.
GenSizes(k, g1, g2) == [o \in 1..k |-> IF o % 2 = 1 THEN g1 ELSE g2]

\* sizes[o] is the number of groups of object o.
GenDoc(sizes, fc, n, missing, uv, m) ==
    [load_ok |-> TRUE, mtls_ok |-> TRUE,
     position |-> Positions,
     texture |-> <<uv, <<uv[2], uv[1]>>>>,
     objects |-> [o \in 1..Len(sizes) |->
                    [groups |-> [g \in 1..sizes[o] |->
                        GenGroup((o - 1) * MaxGroups + g, fc, n, missing, m)]]]]

Docs ==
    {GenDoc(sizes, fc, n, missing, uv, m) :
        sizes \in {GenSizes(k, g1, g2) :
                     k \in 0..MaxObjects, g1 \in 0..MaxGroups, g2 \in 0..MaxGroups},
        fc \in 0..MaxPolys, n \in 1..MaxFaceLen, missing \in MissingSets,
        uv \in UVs, m \in 1..Len(ObjMaterials)}
    \cup {[GenDoc(<<1>>, 1, 3, {}, <<512, 512>>, 1) EXCEPT !.load_ok = FALSE],
          [GenDoc(<<1>>, 1, 3, {}, <<512, 512>>, 1) EXCEPT !.mtls_ok = FALSE]}

\* Which C3D_TexInit calls of one parse_obj fail: none, or the first.
AllocFailSets == {{}, {1}}

InitObj ==
    /\ pc = "load"
    /\ shapes = <<>>
    /\ tex_res = <<>>
    /\ texenv0 = TexEnvInit
    /\ tex_unit0 = None
    /\ last_draw = NoDraw
    /\ obj_doc \in {Some(d) : d \in Docs}
    /\ obj_out = None
    /\ cam = CamInit
    /\ models = <<>>
    /\ frame = NoFrame

\* let models = parse_obj(..) in main.
ParseObj(fails) ==
    /\ pc = "load"
    /\ is_none(obj_out)
    /\ LET out == parse_obj(obj_doc[1], fails, tex_res)
       IN  /\ obj_out' = Some([panic |-> out.panic, models |-> out.models])
           /\ tex_res' = out.res
           /\ pc' = IF out.panic THEN "panicked" ELSE "run"
    /\ UNCHANGED <<shapes, texenv0, tex_unit0, last_draw, obj_doc>>
    /\ UNCHANGED main_vars

NextObj == \E fails \in AllocFailSets : ParseObj(fails)

SpecObj == InitObj /\ [][NextObj]_vars

----------------------------------------------------------------------------
(* model/mod.rs: Model::draw.  A Matrix4 is the sequence of the operations *)
(* that built it, starting with identity; angles and lengths are integer   *)
(* counts of 1/1000.                                                       *)

Matrix4_identity == <<[f |-> "identity", a |-> <<>>]>>

\* mtx.scale(..), mtx.rotate_x(..), mtx.translate(..): one more operation.
Matrix4_then(mtx, f, a) == Append(mtx, [f |-> f, a |-> a])

\* IntoInner(bind_vertex_uniform(index, mtx)).
bind_vertex_uniform(index, mtx) ==
    [op |-> "C3D_FVUnifMtx4x4", id |-> 0, arg |-> <<index, mtx>>]

\* The commands ops as issued for Shape shape of Model model on eye; 0 stands
\* for none.
Tag(ops, eye, model, shape) ==
    [i \in DOMAIN ops |-> [eye |-> eye, model |-> model, shape |-> shape,
                           c |-> ops[i]]]

\* Lines 26-35 with the X rotation taken from rot.x and the Y one from rot.y.
Model_transform_xy(mdl) ==
    Matrix4_then(
      Matrix4_then(
        Matrix4_then(
          Matrix4_then(
            Matrix4_then(Matrix4_identity, "scale", <<1, 1, 1>>),
            "rotate_x", <<-mdl.rot.x>>),
          "rotate_y", <<mdl.rot.y>>),
        "rotate_z", <<mdl.rot.z>>),
      "translate", <<mdl.pos.x, mdl.pos.y, mdl.pos.z>>)

\* Lines 26-35: the model matrix.
Model_transform(mdl) ==
    Matrix4_then(
      Matrix4_then(
        Matrix4_then(
          Matrix4_then(
            Matrix4_then(Matrix4_identity, "scale", <<1, 1, 1>>),
            "rotate_x", <<-mdl.rot.y>>),
          "rotate_y", <<mdl.rot.x>>),
        "rotate_z", <<mdl.rot.z>>),
      "translate", <<mdl.pos.x, mdl.pos.y, mdl.pos.z>>)

\* Line 41: shape.draw(..) as a step of a render; st carries the trace so
\* far, the C3D_Tex resources, whether a panic is unwinding, and the number
\* of Shape::draw calls made.  The draw whose ordinal is in fails finds
\* C3D_TexInit failing.
draw_shape(st, shape, eye, m, s, fails) ==
    IF st.panic THEN st
    ELSE LET mk == Material_make_texture(shape.mat.texture, (st.k + 1) \notin fails,
                                         st.res, "Shape::draw")
             ops == Shape_draw_ops(shape, mk)
             res == IF is_some(mk.tex)
                    THEN C3DTex_drop(mk.res, mk.tex[1], "Shape::draw")
                    ELSE mk.res
         IN  [trace |-> st.trace \o Tag(ops, eye, m, s), res |-> res,
              panic |-> mk.panic, k |-> st.k + 1]

RECURSIVE draw_shapes(_, _, _, _, _, _)
\* Lines 40-42: the first n Shapes of ss drawn in order.
draw_shapes(st, ss, n, eye, m, fails) ==
    IF n = 0 THEN st
    ELSE draw_shape(draw_shapes(st, ss, n - 1, eye, m, fails), ss[n], eye, m, n,
                    fails)

\* Model::draw(&self, gpu, uniforms) of the m-th Model.
Model_draw(st, mdl, eye, m, fails) ==
    IF st.panic THEN st
    ELSE draw_shapes(
           [st EXCEPT !.trace = @ \o
               Tag(<<bind_vertex_uniform("model_matrix", Model_transform(mdl))>>,
                   eye, m, 0)],
           mdl.shapes, Len(mdl.shapes), eye, m, fails)

RECURSIVE draw_models(_, _, _, _, _)
\* main.rs lines 488-490: the first n Models drawn in order.
draw_models(st, mdls, n, eye, fails) ==
    IF n = 0 THEN st
    ELSE Model_draw(draw_models(st, mdls, n - 1, eye, fails), mdls[n], eye, n,
                    fails)

RECURSIVE drop_models(_, _, _, _)
\* Dropping the first n Models of mdls, each dropping its Shapes.
drop_models(res, mdls, n, where) ==
    IF n = 0 THEN res
    ELSE drop_shapes(drop_models(res, mdls, n - 1, where), mdls[n].shapes,
                     Len(mdls[n].shapes), where)

----------------------------------------------------------------------------
(* main.rs: the main loop.  cam_pos, cam_rot and the gyroscope rates are   *)
(* integer counts of 1/1000; the circle pad is in its raw units.           *)

TAU == 6283
DEADZONE == 10
CIRCLE_DEADZONE == 15

abs(x) == IF x < 0 THEN -x ELSE x

\* a % b of f32: the remainder of the truncated division; it has the sign of
\* a.
f32_rem(a, b) == IF a >= 0 THEN a % b ELSE -((-a) % b)

\* An assignment to a field of cam_pos or cam_rot, as an entry of the trace.
write(field) == [op |-> "write", id |-> 0, arg |-> <<field>>]

\* Lines 405-452: the input of one iteration applied to cam_pos and cam_rot.
\* input.gyro is what gyroscope_rate() returned, already divided by
\* coeff * 128 * TAU; None is its Err, on which unwrap() panics.
handle_input(c, input) ==
    LET x == input.circle[1]
        y == input.circle[2]
        mx == abs(x) > CIRCLE_DEADZONE
        my == abs(y) > CIRCLE_DEADZONE
        kx == "X" \in input.held
        ky == "Y" \in input.held
        p1 == IF mx THEN [c.pos EXCEPT !.x = @ - x] ELSE c.pos
        p2 == IF my THEN [p1 EXCEPT !.z = @ + y] ELSE p1
        p3 == IF kx THEN [p2 EXCEPT !.y = @ - 10] ELSE p2
        p4 == IF ky THEN [p3 EXCEPT !.y = @ + 10] ELSE p3
        wp == (IF mx THEN <<write("cam_pos.x")>> ELSE <<>>)
              \o (IF my THEN <<write("cam_pos.z")>> ELSE <<>>)
              \o (IF kx THEN <<write("cam_pos.y")>> ELSE <<>>)
              \o (IF ky THEN <<write("cam_pos.y")>> ELSE <<>>)
    IN  IF is_none(input.gyro)
        THEN [cam |-> [c EXCEPT !.pos = p4], writes |-> wp, panic |-> TRUE]
        ELSE LET roll == input.gyro[1][1]
                 pitch == input.gyro[1][2]
                 yaw == input.gyro[1][3]
                 a == "A" \in input.held
                 mr == a /\ abs(roll) > DEADZONE
                 mp == a /\ abs(pitch) > DEADZONE
                 mw == a /\ abs(yaw) > DEADZONE
                 r1 == IF mr THEN [c.rot EXCEPT !.x = f32_rem(@ + roll, TAU)]
                       ELSE c.rot
                 r2 == IF mp THEN [r1 EXCEPT !.y = f32_rem(@ - pitch, TAU)]
                       ELSE r1
                 r3 == IF mw THEN [r2 EXCEPT !.z = f32_rem(@ - yaw, TAU)]
                       ELSE r2
                 wr == (IF mr THEN <<write("cam_rot.x"), write("cam_rot.x")>>
                        ELSE <<>>)
                       \o (IF mp THEN <<write("cam_rot.y"), write("cam_rot.y")>>
                           ELSE <<>>)
                       \o (IF mw THEN <<write("cam_rot.z"), write("cam_rot.z")>>
                           ELSE <<>>)
             IN  [cam |-> [pos |-> p4, rot |-> r3], writes |-> wp \o wr,
                  panic |-> FALSE]

\* Lines 471-476: the camera matrix.
camera_matrix(c) ==
    Matrix4_then(
      Matrix4_then(
        Matrix4_then(
          Matrix4_then(Matrix4_identity,
                       "translate", <<c.pos.x, c.pos.y, c.pos.z>>),
          "rotate_x", <<c.rot.x>>),
        "rotate_y", <<c.rot.y>>),
      "rotate_z", <<c.rot.z>>)

\* The render targets and the projections of calculate_projections(), by eye:
\* 1 is the left one, 2 the right one.
target_of(eye) == IF eye = 1 THEN "top_left_target" ELSE "top_right_target"
projection_of(eye) ==
    <<[f |-> "perspective_stereo", a |-> <<IF eye = 1 THEN "left_eye" ELSE "right_eye">>]>>

\* Lines 481-484: what render_to does before it draws the models.
render_to_prepare(eye) ==
    <<[op |-> "C3D_RenderTargetClear", id |-> 0, arg |-> <<target_of(eye)>>],
      [op |-> "C3D_FrameDrawOn", id |-> 0, arg |-> <<target_of(eye)>>],
      bind_vertex_uniform("projection_matrix", projection_of(eye))>>

\* Lines 480-491 with the models drawn before the target is prepared.
render_to_models_first(st, eye, mdls, fails) ==
    IF st.panic THEN st
    ELSE LET d == draw_models(st, mdls, Len(mdls), eye, fails)
         IN  IF d.panic THEN d
             ELSE [d EXCEPT !.trace = @ \o Tag(render_to_prepare(eye), eye, 0, 0)]

\* Lines 480-491: the closure render_to on the target of eye.
render_to(st, eye, mdls, fails) ==
    IF st.panic THEN st
    ELSE draw_models([st EXCEPT !.trace = @ \o Tag(render_to_prepare(eye), eye, 0, 0)],
                     mdls, Len(mdls), eye, fails)

\* Lines 470-501: the closure given to render_frame_with.
render_frame(c, mdls, res, fails) ==
    LET st0 == [trace |-> Tag(<<bind_vertex_uniform("camera_matrix",
                                                   camera_matrix(c))>>, 0, 0, 0),
                res |-> res, panic |-> FALSE, k |-> 0]
    IN  render_to(render_to(st0, 1, mdls, fails), 2, mdls, fails)

\* Lines 398-501 with the input handled after the frame is rendered.
main_loop_body_render_first(c, input, mdls, res, fails) ==
    IF input.start
    THEN [cam |-> c, trace |-> <<>>, res |-> res, panic |-> FALSE, brk |-> TRUE]
    ELSE LET h == handle_input(c, input)
             r == render_frame(c, mdls, res, fails)
         IN  [cam |-> h.cam, trace |-> r.trace \o Tag(h.writes, 0, 0, 0),
              res |-> r.res, panic |-> r.panic \/ h.panic, brk |-> FALSE]

\* Lines 398-501: one iteration of the main loop.  brk: the loop was left by
\* break.
main_loop_body(c, input, mdls, res, fails) ==
    IF input.start
    THEN [cam |-> c, trace |-> <<>>, res |-> res, panic |-> FALSE, brk |-> TRUE]
    ELSE LET h == handle_input(c, input)
         IN  IF h.panic
             THEN [cam |-> h.cam, trace |-> Tag(h.writes, 0, 0, 0), res |-> res,
                   panic |-> TRUE, brk |-> FALSE]
             ELSE LET r == render_frame(h.cam, mdls, res, fails)
                  IN  [cam |-> h.cam, trace |-> Tag(h.writes, 0, 0, 0) \o r.trace,
                       res |-> r.res, panic |-> r.panic, brk |-> FALSE]

----------------------------------------------------------------------------
(* SpecMain: the main loop on a family of scenes *)

\* Four vertices, for a fan or a strip.
Quad == Triangle \o <<Vert(Vec3_new(512, 512, 0), Vec2_new(512, 512))>>

\* Shape::new(Material::new(texture, None, None, vertex_colours), prim_type,
\* verts) appended to the Shapes of sc, with the outcome of C3D_TexInit.
scene_shape(sc, texture, vertex_colours, prim_type, verts, alloc_ok) ==
    LET m == Material_new(texture, None, None, vertex_colours, alloc_ok, sc.res)
    IN  [shapes |-> Append(sc.shapes, Shape_new(m.mat, prim_type, verts)),
         res |-> m.res]

NoShapes == [shapes |-> <<>>, res |-> <<>>]

\* A textured fan and an untextured triangle.
ShapesA ==
    scene_shape(
      scene_shape(NoShapes,
                  Some(Texture_new(64, 64, repeat_take(0, 64 * 64 * 4))), TRUE,
                  "TriangleFan", Quad, TRUE),
      None, FALSE, "Triangles", Triangle, TRUE)

\* A textured triangle, as parse_obj builds it.
ShapesB1 ==
    scene_shape(NoShapes, Some(Texture_new(64, 64, repeat_take(0, 64 * 64 * 4))),
                TRUE, "Triangles", Triangle, TRUE)

\* An untextured strip, built after ShapesB1.
ShapesB2 ==
    scene_shape([shapes |-> <<>>, res |-> ShapesB1.res], None, TRUE,
                "TriangleStrip", Quad, TRUE)

\* A triangle whose Texture is one byte short and whose Material found
\* C3D_TexInit failing, and an untextured triangle.
ShapesC ==
    scene_shape(
      scene_shape(NoShapes,
                  Some(Texture_new(8, 8, repeat_take(0, 8 * 8 * 4 - 1))), FALSE,
                  "Triangles", Triangle, FALSE),
      None, TRUE, "Triangles", Triangle, TRUE)

\* The scenes main can have loaded: no Model; one Model of two Shapes; two
\* Models of one Shape, the first as parse_obj returns it; one Model one of
\* whose Shapes cannot upload its Texture.
Scenes ==
    {[models |-> <<>>, res |-> <<>>],
     [models |-> <<Model_new(Vec3_new(0, 0, -1500), Vec3_new(100, 200, 300),
                             ShapesA.shapes)>>,
      res |-> ShapesA.res],
     [models |-> <<Model_new(Vec3_new(0, 0, 0), Vec3_new(0, 0, 0), ShapesB1.shapes),
                   Model_new(Vec3_new(500, -250, 0), Vec3_new(0, 3000, -50),
                             ShapesB2.shapes)>>,
      res |-> ShapesB2.res],
     [models |-> <<Model_new(Vec3_new(0, 0, 0), Vec3_new(0, 0, 0), ShapesC.shapes)>>,
      res |-> ShapesC.res]}

\* What scan_input finds in one iteration: START down; the keys held; the
\* circle pad; the gyroscope rate.
Input(start, held, circle, gyro) ==
    [start |-> start, held |-> held, circle |-> circle, gyro |-> gyro]

Inputs ==
    {Input(TRUE, {"A"}, <<100, 100>>, Some(<<3200, 3200, 3200>>)),
     Input(FALSE, {"A"}, <<0, 0>>, Some(<<3200, 3200, 3200>>)),
     Input(FALSE, {"A", "Y"}, <<0, 20>>, Some(<<-3200, -3200, 5>>)),
     Input(FALSE, {"X"}, <<100, -15>>, Some(<<3200, 0, -3200>>)),
     Input(FALSE, {"A"}, <<-100, 0>>, Some(<<0, 8, -3200>>)),
     Input(FALSE, {"Y"}, <<0, 100>>, None)}

\* The Shape::draw calls of one frame, by ordinal, that find C3D_TexInit
\* failing.
FrameFailSets == {{}, {1}, {1, 3}}

InitMain ==
    /\ pc = "run"
    /\ shapes = <<>>
    /\ \E sc \in Scenes : models = sc.models /\ tex_res = sc.res
    /\ texenv0 = TexEnvInit
    /\ tex_unit0 = None
    /\ last_draw = NoDraw
    /\ obj_doc = None
    /\ obj_out = None
    /\ cam = CamInit
    /\ frame = NoFrame

RECURSIVE commands(_, _)
\* The GPU library calls among the first n entries of a trace.
commands(trace, n) ==
    IF n = 0 THEN <<>>
    ELSE IF trace[n].c.op = "write" THEN commands(trace, n - 1)
    ELSE Append(commands(trace, n - 1), trace[n].c)

\* One iteration of the main loop (lines 397-504).  A panic unwinds main and
\* a break leaves the loop, after which main returns; both drop the models.
Frame(input, fails) ==
    /\ pc = "run"
    /\ frame.n < MaxFrames
    /\ LET out == main_loop_body(cam, input, models, tex_res, fails)
           cs == commands(out.trace, Len(out.trace))
           gpu == gpu_run([env |-> texenv0, unit0 |-> tex_unit0], cs, Len(cs))
       IN  /\ cam' = out.cam
           /\ frame' = [n |-> frame.n + 1, input |-> Some(input),
                        trace |-> out.trace, done |-> ~out.panic /\ ~out.brk]
           /\ texenv0' = gpu.env
           /\ tex_unit0' = gpu.unit0
           /\ pc' = IF out.panic THEN "panicked"
                    ELSE IF out.brk THEN "exited" ELSE "run"
           /\ tex_res' = IF out.panic
                         THEN drop_models(out.res, models, Len(models), "unwind")
                         ELSE IF out.brk
                         THEN drop_models(out.res, models, Len(models),
                                          "Material::drop")
                         ELSE out.res
    /\ UNCHANGED <<shapes, last_draw, obj_doc, obj_out, models>>

\* apt.main_loop() returns false (line 397): the loop ends and main returns.
AptExit ==
    /\ pc = "run"
    /\ pc' = "exited"
    /\ tex_res' = drop_models(tex_res, models, Len(models), "Material::drop")
    /\ UNCHANGED <<shapes, texenv0, tex_unit0, last_draw, obj_doc, obj_out>>
    /\ UNCHANGED main_vars

NextMain ==
    \/ \E input \in Inputs, fails \in FrameFailSets : Frame(input, fails)
    \/ AptExit

SpecMain == InitMain /\ [][NextMain]_vars

----------------------------------------------------------------------------
(* Properties of Spec *)

\* The three combiner configurations of Shape::draw.
TexEnvModulate == [src |-> <<"Texture0", Some("PrimaryColor"), None>>,
                   func |-> "Modulate"]
TexEnvTexture == [src |-> <<"Texture0", None, None>>, func |-> "Replace"]
TexEnvPrimary == [src |-> <<"PrimaryColor", None, None>>, func |-> "Replace"]

\* Stage configurations a context may be in when a draw starts.
AnyTexEnv ==
    {TexEnvInit, TexEnvModulate, TexEnvTexture, TexEnvPrimary,
     [src |-> <<"Constant", Some("Previous"), Some("Texture1")>>, func |-> "Add"]}

\* The last Shape::draw issued its draw call.
Drew == ops_at(last_draw.ops, "C3D_DrawArrays") /= {}

\* The stage-0 configuration in effect at the d-th command of the last draw,
\* had the draw started with the stage configured as env.
EnvAt(env, d) ==
    gpu_run([env |-> env, unit0 |-> None], last_draw.ops, d - 1).env

\* The stage-0 configuration in effect at the draw call of the last draw.
DrawEnv ==
    LET d == CHOOSE i \in ops_at(last_draw.ops, "C3D_DrawArrays") : TRUE
    IN  EnvAt(last_draw.env_before, d)

\* C1: every Shape::draw configures stage 0 with the configuration selected
\* by the Material: Modulate over (Texture0, PrimaryColor) if the Material has
\* a GPU texture and uses vertex colours, Replace over Texture0 if it has a
\* GPU texture and does not, Replace over PrimaryColor if it has no GPU
\* texture; and it binds a texture on unit 0 exactly when the Material has a
\* GPU texture (never for a Material built with texture = None).
C1_TexenvSelectedByMaterial ==
    Drew =>
        LET mat == last_draw.mat[1]
            has == is_some(Material_get_texture(mat))
            bound == ops_at(last_draw.ops, "C3D_TexBind") /= {}
        IN  /\ bound <=> has
            /\ DrawEnv = IF has
                         THEN (IF Material_use_vertex_colours(mat)
                               THEN TexEnvModulate ELSE TexEnvTexture)
                         ELSE TexEnvPrimary
            /\ is_none(mat.texture) => ~bound /\ DrawEnv = TexEnvPrimary

\* C2: in every Shape::draw, the draw call comes after a write of the sources
\* and a write of the combine function of stage 0 made by that same draw, so
\* the configuration in effect at the draw call is the same whatever
\* configuration the previous draw left.
C2_TexenvWrittenBeforeDraw ==
    \A d \in ops_at(last_draw.ops, "C3D_DrawArrays") :
        /\ \E i \in ops_at(last_draw.ops, "C3D_TexEnvSrc") : i < d
        /\ \E i \in ops_at(last_draw.ops, "C3D_TexEnvFunc") : i < d
        /\ \A env \in AnyTexEnv : EnvAt(env, d) = EnvAt(last_draw.env_before, d)
        /\ EnvAt(last_draw.env_before, d) \in
               {TexEnvModulate, TexEnvTexture, TexEnvPrimary}

\* A Shape was drawn on a context whose stage 0 a previous draw had left in
\* another configuration than the one this draw needs.
C2_Witness ==
    /\ Drew
    /\ last_draw.env_before /= TexEnvInit
    /\ last_draw.env_before /= DrawEnv

\* C3: a Material given a Texture whose GPU texture allocation failed in
\* Material::new has no GPU texture, and every later draw of it takes the
\* no-texture configuration and issues its draw call.
C3_AllocFailureDegrades ==
    last_draw.shape /= 0 =>
        LET mat == last_draw.mat[1]
        IN  is_some(mat.texture) /\ is_none(Material_get_texture(mat)) =>
                /\ Drew
                /\ ops_at(last_draw.ops, "C3D_TexBind") = {}
                /\ DrawEnv = TexEnvPrimary

\* C4: every C3D_Tex is initialised by Material::new, is deleted at most
\* once and only when its Material is destroyed, is not deleted while its
\* Material is alive, and is deleted once the program has exited or panicked;
\* so no draw initialises or deletes a C3D_Tex.
C4_TexReleasedOnceWithMaterial ==
    /\ \A id \in DOMAIN tex_res :
          /\ tex_res[id].by = "Material::new"
          /\ tex_res[id].deletes <= 1
          /\ tex_res[id].deletes = 1 =>
                tex_res[id].freed_by \in {"Material::drop", "unwind"}
          /\ pc \in {"exited", "panicked"} => tex_res[id].deletes = 1
    /\ \A s \in DOMAIN shapes :
          is_some(shapes[s].mat.citro_tex) =>
              tex_res[shapes[s].mat.citro_tex[1]].deletes = 0

----------------------------------------------------------------------------
(* Properties of SpecObj *)

\* parse_obj returned its Models.
Loaded == is_some(obj_out) /\ ~obj_out[1].panic

\* Number of Verts a polygon of n index tuples contributes.
Emitted(n) == IF n < 3 THEN n ELSE 3

RECURSIVE Offset(_, _)
\* Number of Verts the polygons before the k-th contribute.
Offset(polys, k) ==
    IF k = 1 THEN 0 ELSE Offset(polys, k - 1) + Emitted(Len(polys[k - 1]))

\* A file number e times k/512 is e * k * Scale as a stored coordinate.
Scale == One \div (FileDen * 512)

\* The stored texture coordinate of an Option<index> t of document doc:
\* (u * 480/512, 1 - v * 395/512) in counts of 1/One, (0, 0) without index.
ExpectTex(doc, t) ==
    IF is_none(t) THEN [x |-> 0, y |-> 0]
    ELSE [x |-> doc.texture[t[1]][1] * 480 * Scale,
          y |-> One - doc.texture[t[1]][2] * 395 * Scale]

\* The Vec3 of position index v of document doc.
ExpectPos(doc, v) ==
    [x |-> doc.position[v][1], y |-> doc.position[v][2], z |-> doc.position[v][3]]

\* The (object, group) pairs of the loaded document.
GroupIds ==
    {og \in (1..MaxObjects) \X (1..MaxGroups) :
        /\ og[1] <= Len(obj_doc[1].objects)
        /\ og[2] <= Len(obj_doc[1].objects[og[1]].groups)}

GroupAt(og) == obj_doc[1].objects[og[1]].groups[og[2]]
ShapeAt(og) == obj_out[1].models[og[1]].shapes[og[2]]

\* Every Model has a Shape for every group and every Shape the Verts of its
\* group's polygons: what makes ShapeAt and Offset meaningful.
WellShaped ==
    /\ Len(obj_out[1].models) = Len(obj_doc[1].objects)
    /\ \A o \in DOMAIN obj_doc[1].objects :
          Len(obj_out[1].models[o].shapes) = Len(obj_doc[1].objects[o].groups)
    /\ \A og \in GroupIds :
          Len(ShapeAt(og).verts) = Offset(GroupAt(og).polys, Len(GroupAt(og).polys) + 1)

\* The group has a material with a texture map.
HasMapKd(g) == is_some(g.material) /\ is_some(g.material[1].map_kd)
HasKd(g) == is_some(g.material) /\ is_some(g.material[1].kd)

\* C6: a successful parse_obj returns one Model per object, in order, each at
\* position and rotation zero, with one triangle-list Shape per group, in
\* order, groups without polygons included.
C6_OneModelPerObject ==
    Loaded =>
        /\ Len(obj_out[1].models) = Len(obj_doc[1].objects)
        /\ \A o \in DOMAIN obj_doc[1].objects :
              /\ obj_out[1].models[o].pos = [x |-> 0, y |-> 0, z |-> 0]
              /\ obj_out[1].models[o].rot = [x |-> 0, y |-> 0, z |-> 0]
              /\ Len(obj_out[1].models[o].shapes)
                    = Len(obj_doc[1].objects[o].groups)
        /\ \A og \in GroupIds :
              /\ ShapeAt(og).prim_type = "Triangles"
              /\ Len(ShapeAt(og).verts)
                    = Offset(GroupAt(og).polys, Len(GroupAt(og).polys) + 1)
              /\ Len(GroupAt(og).polys) > 0 /\ Len(GroupAt(og).polys[1]) > 0 =>
                    ShapeAt(og).verts[1].pos
                        = ExpectPos(obj_doc[1], GroupAt(og).polys[1][1].v)
              /\ is_some(ShapeAt(og).mat.colour) <=> HasKd(GroupAt(og))
              /\ ShapeAt(og).mat.texture[1].width = 512 <=> HasMapKd(GroupAt(og))

\* Two objects were loaded, one of them with two groups, and a group without
\* polygons sits before a group with polygons.
C6_Witness ==
    /\ Loaded
    /\ Len(obj_doc[1].objects) = 2
    /\ \E og \in GroupIds :
          /\ og[2] = 1
          /\ Len(GroupAt(og).polys) = 0
          /\ <<og[1], 2>> \in GroupIds
          /\ Len(GroupAt(<<og[1], 2>>).polys) > 0
          /\ Len(ShapeAt(og).verts) = 0
          /\ Len(ShapeAt(<<og[1], 2>>).verts) > 0

\* C7: a polygon of n >= 3 index tuples contributes exactly 3 Verts, the
\* i-th made of the position and of the texture coordinate of its i-th index
\* tuple, for i = 1, 2, 3.
C7_FirstThreePairs ==
    Loaded =>
        /\ WellShaped
        /\ \A og \in GroupIds :
              \A k \in DOMAIN GroupAt(og).polys :
                  LET p == GroupAt(og).polys[k]
                      off == Offset(GroupAt(og).polys, k)
                  IN  Len(p) >= 3 =>
                          /\ Offset(GroupAt(og).polys, k + 1) = off + 3
                          /\ \A i \in 1..3 :
                                ShapeAt(og).verts[off + i]
                                    = [pos |-> ExpectPos(obj_doc[1], p[i].v),
                                       tex |-> ExpectTex(obj_doc[1], p[i].t)]

\* A group with a polygon of 4 complete pairs was loaded into a Shape that
\* holds 3 Verts for it.
C7_Witness ==
    /\ Loaded
    /\ \E og \in GroupIds :
          /\ Len(GroupAt(og).polys) = 1
          /\ Len(GroupAt(og).polys[1]) = 4
          /\ \A i \in 1..4 : is_some(GroupAt(og).polys[1][i].t)
          /\ Len(ShapeAt(og).verts) = 3

\* The document of one object with one group with one triangle and no
\* material.
Minimal ==
    /\ Len(obj_doc[1].objects) = 1
    /\ Len(obj_doc[1].objects[1].groups) = 1
    /\ is_none(obj_doc[1].objects[1].groups[1].material)
    /\ Len(obj_doc[1].objects[1].groups[1].polys) = 1
    /\ Len(obj_doc[1].objects[1].groups[1].polys[1]) = 3

Placeholder == [width |-> 64, height |-> 64, data |-> [len |-> 64 * 64 * 4, byte |-> 0]]

\* C8 as stated: on the minimal document the one Shape's Material has no
\* texture and no colour.
C8_MinimalMaterialTextureless ==
    Loaded /\ Minimal =>
        /\ Len(obj_out[1].models) = 1
        /\ Len(obj_out[1].models[1].shapes) = 1
        /\ is_none(obj_out[1].models[1].shapes[1].mat.texture)
        /\ is_none(obj_out[1].models[1].shapes[1].mat.colour)

\* C8 (amended): the Material of every group without texture map holds the
\* 64x64 texture of 64*64*4 zero bytes; on the minimal document the result is
\* one Model with one Shape whose Material has no colour and no ambient
\* colour and holds that placeholder as its texture.
C8_PlaceholderTexture ==
    Loaded =>
        /\ WellShaped
        /\ \A og \in GroupIds :
              ~HasMapKd(GroupAt(og)) =>
                  ShapeAt(og).mat.texture = <<Placeholder>>
        /\ Minimal =>
              /\ Len(obj_out[1].models) = 1
              /\ Len(obj_out[1].models[1].shapes) = 1
              /\ obj_out[1].models[1].shapes[1].mat.colour = <<>>
              /\ obj_out[1].models[1].shapes[1].mat.ambient = <<>>
              /\ obj_out[1].models[1].shapes[1].mat.texture = <<Placeholder>>
              /\ Len(obj_out[1].models[1].shapes[1].verts) = 3

\* The minimal document was loaded.
C8_Witness ==
    /\ Loaded
    /\ Minimal
    /\ obj_out[1].models[1].shapes[1].mat.texture = <<Placeholder>>

\* C9: every Vert whose index tuple carries a texture-coordinate index t
\* stores (u * 480/512, 1 - v * 395/512) for the (u, v) read at t, unclamped;
\* (1, 1) is stored as (0.9375, 0.228515625).
C9_TexRemap ==
    Loaded =>
        /\ WellShaped
        /\ \A og \in GroupIds :
              \A k \in DOMAIN GroupAt(og).polys :
                  \A i \in 1..Emitted(Len(GroupAt(og).polys[k])) :
                      LET t == GroupAt(og).polys[k][i].t
                          vert == ShapeAt(og).verts[Offset(GroupAt(og).polys, k) + i]
                      IN  is_some(t) =>
                            LET uv == obj_doc[1].texture[t[1]]
                            IN  /\ vert.tex.x = uv[1] * 480 * Scale
                                /\ One - vert.tex.y = uv[2] * 395 * Scale
                                \* 0.9375 = 15/16, 0.228515625 = 117/512
                                /\ uv = <<FileDen, FileDen>> =>
                                      /\ vert.tex.x * 16 = 15 * One
                                      /\ vert.tex.y * 512 = 117 * One

\* A Vert read from an index tuple with texture coordinate (0.5, 2.0) was
\* stored with a negative v.
C9_Witness ==
    /\ Loaded
    /\ \E og \in GroupIds :
          /\ Len(GroupAt(og).polys) > 0
          /\ Len(GroupAt(og).polys[1]) > 0
          /\ is_some(GroupAt(og).polys[1][1].t)
          /\ obj_doc[1].texture[GroupAt(og).polys[1][1].t[1]] = <<256, 1024>>
          /\ Len(ShapeAt(og).verts) > 0
          /\ ShapeAt(og).verts[1].tex.y < 0

\* C10: a Vert whose index tuple carries no texture-coordinate index stores
\* (0, 0), a Vert whose index tuple carries one stores the remapped
\* coordinate found at that index, whatever the other index tuples of the
\* polygon carry.
C10_MissingTexIndex ==
    Loaded =>
        /\ WellShaped
        /\ \A og \in GroupIds :
              \A k \in DOMAIN GroupAt(og).polys :
                  \A i \in 1..Emitted(Len(GroupAt(og).polys[k])) :
                      LET t == GroupAt(og).polys[k][i].t
                          vert == ShapeAt(og).verts[Offset(GroupAt(og).polys, k) + i]
                      IN  /\ is_none(t) => vert.tex = [x |-> 0, y |-> 0]
                          /\ is_some(t) => vert.tex = ExpectTex(obj_doc[1], t)

\* A polygon whose first index tuple has no texture-coordinate index and
\* whose second has one was loaded, and the second Vert's coordinate is not
\* (0, 0).
C10_Witness ==
    /\ Loaded
    /\ \E og \in GroupIds :
          /\ Len(GroupAt(og).polys) > 0
          /\ Len(GroupAt(og).polys[1]) >= 2
          /\ is_none(GroupAt(og).polys[1][1].t)
          /\ is_some(GroupAt(og).polys[1][2].t)
          /\ Len(ShapeAt(og).verts) >= 2
          /\ ShapeAt(og).verts[1].tex = [x |-> 0, y |-> 0]
          /\ ShapeAt(og).verts[2].tex /= [x |-> 0, y |-> 0]

----------------------------------------------------------------------------
(* Properties of SpecMain *)

Eyes == {1, 2}

\* Positions of the latest iteration's trace, by what they are.
Writes == {i \in DOMAIN frame.trace : frame.trace[i].c.op = "write"}
Cmds == DOMAIN frame.trace \ Writes
EyeSeg(eye) == {i \in Cmds : frame.trace[i].eye = eye}
ModelSeg(eye, m) == {i \in EyeSeg(eye) : frame.trace[i].model = m}
ShapeSeg(eye, m, s) == {i \in ModelSeg(eye, m) : frame.trace[i].shape = s}
OpsIn(S, op) == {i \in S : frame.trace[i].c.op = op}
Binds(S, index) ==
    {i \in OpsIn(S, "C3D_FVUnifMtx4x4") : frame.trace[i].c.arg[1] = index}

SetMin(S) == CHOOSE x \in S : \A y \in S : x <= y
SetMax(S) == CHOOSE x \in S : \A y \in S : x >= y

\* The latest iteration read a gyroscope rate and did not break.
Handled ==
    /\ is_some(frame.input)
    /\ ~frame.input[1].start
    /\ is_some(frame.input[1].gyro)

\* C12: every component of cam_rot, the rotation the input loop updates,
\* lies in [0, TAU) after any sequence of iterations.
C12_RotationInRange ==
    /\ 0 <= cam.rot.x /\ cam.rot.x < TAU
    /\ 0 <= cam.rot.y /\ cam.rot.y < TAU
    /\ 0 <= cam.rot.z /\ cam.rot.z < TAU

\* The calls of one Model::draw: the matrix bound to the model-matrix uniform
\* is identity, scale 1, rotate_x(-rot.y), rotate_y(rot.x), rotate_z(rot.z),
\* translate(pos); it is bound once, before the first call of a Shape::draw;
\* the draw calls are those of Shapes 1, 2, .. in this order, and of every
\* Shape of the Model when the frame was rendered whole.
C13_ModelDrawSteps ==
    \A eye \in Eyes : \A m \in DOMAIN models :
        ModelSeg(eye, m) /= {} =>
            LET mdl == models[m]
                seg == ModelSeg(eye, m)
                p == SetMin(seg)
                draws == OpsIn(seg, "C3D_DrawArrays")
            IN  /\ frame.trace[p].c =
                       [op |-> "C3D_FVUnifMtx4x4", id |-> 0,
                        arg |-> <<"model_matrix",
                                  <<[f |-> "identity", a |-> <<>>],
                                    [f |-> "scale", a |-> <<1, 1, 1>>],
                                    [f |-> "rotate_x", a |-> <<-mdl.rot.y>>],
                                    [f |-> "rotate_y", a |-> <<mdl.rot.x>>],
                                    [f |-> "rotate_z", a |-> <<mdl.rot.z>>],
                                    [f |-> "translate",
                                     a |-> <<mdl.pos.x, mdl.pos.y, mdl.pos.z>>]>>
                                >>]
                /\ Binds(seg, "model_matrix") = {p}
                /\ \A i \in seg \ {p} : frame.trace[i].shape \in DOMAIN mdl.shapes
                /\ \A i \in seg : \A j \in seg :
                      i < j => frame.trace[i].shape <= frame.trace[j].shape
                /\ \A i \in draws :
                      frame.trace[i].shape = Cardinality({j \in draws : j <= i})
                /\ frame.done => Cardinality(draws) = Len(mdl.shapes)

\* C13: Model::draw performs its steps in the order of C13_ModelDrawSteps and
\* no step of the program changes the position, the rotation or the Shapes of
\* a Model.
C13_ModelDrawOrder == [](C13_ModelDrawSteps) /\ [][models' = models]_vars

\* A frame was rendered whole in which a Model of two Shapes, with a position
\* and three different rotation angles other than zero, was drawn.
C13_Witness ==
    /\ frame.done
    /\ \E m \in DOMAIN models :
          /\ Len(models[m].shapes) = 2
          /\ models[m].rot.x /= 0
          /\ models[m].rot.y /= models[m].rot.x
          /\ models[m].rot.z /= models[m].rot.y
          /\ models[m].pos.z /= 0
          /\ Cardinality(OpsIn(ModelSeg(1, m), "C3D_DrawArrays")) = 2
          /\ Cardinality(OpsIn(ModelSeg(2, m), "C3D_DrawArrays")) = 2

\* The Shape::draw of Shape s of Model m on eye returned.
ShapeDrawn(eye, m, s) ==
    /\ ShapeSeg(eye, m, s) /= {}
    /\ frame.done \/ SetMax(ShapeSeg(eye, m, s)) < Len(frame.trace)

\* The calls of every Shape::draw that returned: one upload of all the
\* Shape's vertices, then one draw call, with the Shape's topology and the
\* number of its vertices.
C14_ShapeDrawCalls ==
    \A eye \in Eyes : \A m \in DOMAIN models : \A s \in DOMAIN models[m].shapes :
        ShapeDrawn(eye, m, s) =>
            LET shape == models[m].shapes[s]
                seg == ShapeSeg(eye, m, s)
                adds == OpsIn(seg, "BufInfo_Add")
                draws == OpsIn(seg, "C3D_DrawArrays")
            IN  /\ Cardinality(adds) = 1
                /\ Cardinality(draws) = 1
                /\ \A i \in adds : \A j \in draws :
                      /\ i < j
                      /\ frame.trace[i].c.id = Len(shape.verts)
                      /\ frame.trace[j].c.id = Len(shape.verts)
                      /\ frame.trace[j].c.arg = <<shape.prim_type>>

\* C14: every Shape::draw that returns has uploaded all the vertices of the
\* Shape and issued one draw call, with the Shape's topology and vertex
\* count, and no step changes the vertices, the topology or the Material of
\* a Shape, so that a second draw of the Shape issues the same upload and the
\* same draw call.
C14_ShapeDrawOnce ==
    /\ [](C14_ShapeDrawCalls)
    /\ [][\A m \in DOMAIN models :
            /\ m \in DOMAIN models'
            /\ models'[m].shapes = models[m].shapes]_vars

\* A fan of four vertices was drawn on both eyes, with the same upload and
\* the same draw call.
C14_Witness ==
    /\ frame.done
    /\ \E m \in DOMAIN models : \E s \in DOMAIN models[m].shapes :
          /\ models[m].shapes[s].prim_type = "TriangleFan"
          /\ Len(models[m].shapes[s].verts) = 4
          /\ ShapeDrawn(1, m, s)
          /\ ShapeDrawn(2, m, s)
          /\ \E i \in OpsIn(ShapeSeg(1, m, s), "C3D_DrawArrays") :
             \E j \in OpsIn(ShapeSeg(2, m, s), "C3D_DrawArrays") :
                /\ frame.trace[i].c = frame.trace[j].c
                /\ frame.trace[i].c.arg = <<"TriangleFan">>
                /\ frame.trace[i].c.id = 4

\* C15: in every iteration the writes to cam_pos and cam_rot all come before
\* the first call of the render step; the camera matrix bound is built from
\* the values they left; and the two eyes are given the same model matrix
\* for every Model both draw.
C15_InputBeforeRender ==
    /\ \A i \in Writes : \A j \in Cmds : i < j
    /\ \A i \in Binds(Cmds, "camera_matrix") :
          frame.trace[i].c.arg[2] =
              <<[f |-> "identity", a |-> <<>>],
                [f |-> "translate", a |-> <<cam.pos.x, cam.pos.y, cam.pos.z>>],
                [f |-> "rotate_x", a |-> <<cam.rot.x>>],
                [f |-> "rotate_y", a |-> <<cam.rot.y>>],
                [f |-> "rotate_z", a |-> <<cam.rot.z>>]>>
    /\ Cmds /= {} => Cardinality(Binds(Cmds, "camera_matrix")) = 1
    /\ \A m \in DOMAIN models :
          \A i \in Binds(ModelSeg(1, m), "model_matrix") :
          \A j \in Binds(ModelSeg(2, m), "model_matrix") :
              frame.trace[i].c = frame.trace[j].c
    /\ frame.done =>
          \A m \in DOMAIN models :
              /\ Binds(ModelSeg(1, m), "model_matrix") /= {}
              /\ Binds(ModelSeg(2, m), "model_matrix") /= {}

\* The second iteration wrote cam_pos and cam_rot and then rendered both eyes
\* whole, with a camera that is no longer the initial one.
C15_Witness ==
    /\ frame.done
    /\ frame.n = 2
    /\ \E i \in Writes : frame.trace[i].c.arg = <<"cam_rot.y">>
    /\ \E i \in Writes : frame.trace[i].c.arg = <<"cam_pos.y">>
    /\ cam.rot.y /= 0
    /\ cam.pos.y /= 0
    /\ Len(models) = 2
    /\ OpsIn(EyeSeg(1), "C3D_DrawArrays") /= {}
    /\ OpsIn(EyeSeg(2), "C3D_DrawArrays") /= {}

\* C16: an iteration that renders binds the camera matrix once, before any
\* call made for an eye; the calls for the left eye come before those for
\* the right eye; for an eye, its target is cleared, then selected, then its
\* projection is bound, each once and before any Model is drawn; the Models
\* are drawn in load order, each once, and all of them when the frame was
\* rendered whole.  An iteration that finds START down makes no call and
\* ends the loop.
C16_FrameOrder ==
    /\ Cmds /= {} =>
          /\ Binds(Cmds, "camera_matrix") = {SetMin(Cmds)}
          /\ frame.trace[SetMin(Cmds)].eye = 0
    /\ \A i \in EyeSeg(1) : \A j \in EyeSeg(2) : i < j
    /\ \A eye \in Eyes :
          EyeSeg(eye) /= {} =>
              LET p == SetMin(EyeSeg(eye))
                  target == IF eye = 1 THEN "top_left_target"
                            ELSE "top_right_target"
                  proj == IF eye = 1 THEN "left_eye" ELSE "right_eye"
                  binds == Binds(EyeSeg(eye), "model_matrix")
              IN  /\ EyeSeg(eye) = p..SetMax(EyeSeg(eye))
                  /\ p + 2 <= Len(frame.trace)
                  /\ frame.trace[p].c.op = "C3D_RenderTargetClear"
                  /\ frame.trace[p].c.arg = <<target>>
                  /\ frame.trace[p + 1].c.op = "C3D_FrameDrawOn"
                  /\ frame.trace[p + 1].c.arg = <<target>>
                  /\ frame.trace[p + 2].c.op = "C3D_FVUnifMtx4x4"
                  /\ frame.trace[p + 2].c.arg[1] = "projection_matrix"
                  /\ frame.trace[p + 2].c.arg[2][1].a = <<proj>>
                  /\ OpsIn(EyeSeg(eye), "C3D_RenderTargetClear") = {p}
                  /\ OpsIn(EyeSeg(eye), "C3D_FrameDrawOn") = {p + 1}
                  /\ Binds(EyeSeg(eye), "projection_matrix") = {p + 2}
                  /\ \A i \in EyeSeg(eye) \ {p, p + 1, p + 2} :
                        frame.trace[i].model \in DOMAIN models
                  /\ \A i \in binds :
                        frame.trace[i].model = Cardinality({j \in binds : j <= i})
                  /\ \A i \in EyeSeg(eye) : \A j \in EyeSeg(eye) :
                        i < j => frame.trace[i].model <= frame.trace[j].model
                  /\ frame.done => Cardinality(binds) = Len(models)
    /\ frame.done => EyeSeg(1) /= {} /\ EyeSeg(2) /= {}
    /\ (is_some(frame.input) /\ frame.input[1].start) =>
          /\ frame.trace = <<>>
          /\ pc = "exited"

\* A frame was rendered whole with two Models drawn on each eye.
C16_Witness ==
    /\ frame.done
    /\ Len(models) = 2
    /\ Cardinality(Binds(EyeSeg(1), "model_matrix")) = 2
    /\ Cardinality(Binds(EyeSeg(2), "model_matrix")) = 2
    /\ Cardinality(OpsIn(EyeSeg(1), "C3D_DrawArrays")) = 2
    /\ Cardinality(OpsIn(EyeSeg(2), "C3D_DrawArrays")) = 2

----------------------------------------------------------------------------
(* C11: parse_obj panics on unusable input *)

\* The group's material is an ObjMaterial::Ref.
IsRef(g) == is_some(g.material) /\ g.material[1].kind = "Ref"

\* The group's material names a texture-map file that cannot be read.
MapUnreadable(g) == HasMapKd(g) /\ ~g.material[1].map_kd[1].readable

\* The document cannot be loaded, or its material library cannot, or one of
\* its groups has a Ref material or an unreadable texture-map file.
Unusable(doc) ==
    \/ ~doc.load_ok
    \/ ~doc.mtls_ok
    \/ \E o \in DOMAIN doc.objects : \E g \in DOMAIN doc.objects[o].groups :
          IsRef(doc.objects[o].groups[g]) \/ MapUnreadable(doc.objects[o].groups[g])

\* C11: parse_obj applied to a document that cannot be loaded, whose material
\* library cannot be loaded, or one of whose groups has a Ref material or an
\* unreadable texture-map file panics, which ends the process, and returns
\* no Model, not even those of the objects before the offending group.
C11_PanicsOnUnusableInput ==
    (is_some(obj_out) /\ Unusable(obj_doc[1])) =>
        /\ obj_out[1].panic
        /\ obj_out[1].models = <<>>
        /\ pc = "panicked"

\* parse_obj panicked on a document whose first object was parsed whole, its
\* Material built with a GPU texture, and whose second object names a
\* texture-map file that cannot be read; the texture built was released again
\* and nothing was returned.
C11_Witness ==
    /\ is_some(obj_out)
    /\ obj_out[1].panic
    /\ obj_out[1].models = <<>>
    /\ obj_doc[1].load_ok /\ obj_doc[1].mtls_ok
    /\ Len(obj_doc[1].objects) = 2
    /\ Len(obj_doc[1].objects[1].groups) = 1
    /\ Len(obj_doc[1].objects[2].groups) = 1
    /\ ~Unusable([obj_doc[1] EXCEPT !.objects = <<obj_doc[1].objects[1]>>])
    /\ MapUnreadable(obj_doc[1].objects[2].groups[1])
    /\ Len(tex_res) = 1
    /\ tex_res[1].deletes = 1

----------------------------------------------------------------------------
(* C17: vertices per face *)

\* C17: every Shape parse_obj builds holds exactly 3 Verts for each polygon of
\* its group, whatever number of index tuples the polygons have, so that its
\* vertex count is 3 times the number of polygons.
C17_ThreeVertsPerFace ==
    Loaded =>
        /\ WellShaped
        /\ \A og \in GroupIds :
              /\ Len(ShapeAt(og).verts) = 3 * Len(GroupAt(og).polys)
              /\ Len(ShapeAt(og).verts) % 3 = 0

====
